---- MODULE Spec2Model ----
(***************************************************************************)
(* Model of asyncio_rpc/serialization/msgpack.py: the module-level         *)
(* REGISTRY, register(), the handler classes, the msgpack hooks default()  *)
(* and ext_hook(), and the entry points dumpb() / loadb().                 *)
(*                                                                         *)
(* Python values and byte strings are both represented as nodes            *)
(*   [k, n, s, c]  (kind, integer part, string part, children).            *)
(* For a Python value k is the name of type(obj); for a byte string k is   *)
(* the msgpack format family ("nil", "int", "arr", "ext", ...) or the name *)
(* of the compressor whose output it is ("lz4", "cz").  An exception is a  *)
(* node of kind "Error" whose s names the failure.                         *)
(***************************************************************************)
EXTENDS Integers, Sequences, FiniteSets, TLC

VARIABLES REGISTRY, last

vars == <<REGISTRY, last>>

\* Largest nesting depth of the values handed to dumpb.
MaxDepth == 2

Node(k, n, s, c) == [k |-> k, n |-> n, s |-> s, c |-> c]

Error(name) == Node("Error", 0, name, <<>>)

IsError(x) == x.k = "Error"

\* Python's None, also the node stored where an operation has no such part.
PyNone == Node("None", 0, "", <<>>)

PyInt(i) == Node("int", i, "", <<>>)

PyStr(str) == Node("str", 0, str, <<>>)

PyBool(b) == Node("bool", IF b THEN 1 ELSE 0, "", <<>>)

(***************************************************************************)
(* Handlers and record classes.                                            *)
(***************************************************************************)

BuiltinHandlers ==
    {"NumpyArrayHandler", "NumpyStructuredArrayHandler", "DatetimeHandler", "SliceHandler"}

\* Application handlers in the style of the built-in ones (obj_type and
\* ext_type attributes): K1 declares ext_type 1, K4 declares ext_type 4.
CustomHandlers == {"K1", "K4"}

\* A1 and A2 are two distinct dataclasses that are both named "A";
\* P1 is a pydantic model that is also named "A".
Dataclasses == {"A1", "A2"}

PydanticModels == {"P1"}

\* An object that is neither a record class nor has obj_type / ext_type.
NotAHandler == "NotAHandler"

Descriptors ==
    BuiltinHandlers \cup CustomHandlers \cup Dataclasses \cup PydanticModels \cup {NotAHandler}

ext_type(h) ==
    CASE h = "NumpyArrayHandler" -> 1
      [] h = "NumpyStructuredArrayHandler" -> 2
      [] h = "DatetimeHandler" -> 3
      [] h = "DataclassHandler" -> 4
      [] h = "SliceHandler" -> 5
      [] h = "PydanticHandler" -> 6
      [] h = "K1" -> 1
      [] h = "K4" -> 4

obj_type(h) ==
    CASE h = "NumpyArrayHandler" -> "ndarray"
      [] h = "NumpyStructuredArrayHandler" -> "void"
      [] h = "DatetimeHandler" -> "datetime"
      [] h = "SliceHandler" -> "slice"
      [] h = "K1" -> "KType1"
      [] h = "K4" -> "KType4"

\* obj_def.__name__ of a record class.
ClassName(cls) ==
    CASE cls = "A1" -> "A"
      [] cls = "A2" -> "A"
      [] cls = "P1" -> "A"

EmptyMap == [x \in {} |-> ""]

Put(f, key, val) == [x \in (DOMAIN f) \cup {key} |-> IF x = key THEN val ELSE f[x]]

(***************************************************************************)
(* register                                                                *)
(***************************************************************************)

RegisterPydantic(reg, obj_def) ==
    [reg EXCEPT
        !.pydantic_serializables = Put(@, ClassName(obj_def), obj_def),
        !.obj_types = Put(@, obj_def, "PydanticHandler"),
        !.ext_types = IF ext_type("PydanticHandler") \notin DOMAIN @
                      THEN Put(@, ext_type("PydanticHandler"), "PydanticHandler")
                      ELSE @]

\* A registration that binds the ext code of the handler each time.
RegisterDataclassAlways(reg, obj_def) ==
    [reg EXCEPT
        !.serializables = Put(@, ClassName(obj_def), obj_def),
        !.obj_types = Put(@, obj_def, "DataclassHandler"),
        !.ext_types = Put(@, ext_type("DataclassHandler"), "DataclassHandler")]

RegisterDataclass(reg, obj_def) ==
    [reg EXCEPT
        !.serializables = Put(@, ClassName(obj_def), obj_def),
        !.obj_types = Put(@, obj_def, "DataclassHandler"),
        !.ext_types = IF ext_type("DataclassHandler") \notin DOMAIN @
                      THEN Put(@, ext_type("DataclassHandler"), "DataclassHandler")
                      ELSE @]

\* A registration that evicts the native type of the handler it displaces.
RegisterHandlerEvicting(reg, obj_def) ==
    LET code == ext_type(obj_def)
        old == IF code \in DOMAIN reg.ext_types THEN reg.ext_types[code] ELSE obj_def
        kept == IF old = obj_def \/ old \in {"DataclassHandler", "PydanticHandler"}
                THEN DOMAIN reg.obj_types
                ELSE (DOMAIN reg.obj_types) \ {obj_type(old)}
    IN  [reg EXCEPT
            !.obj_types = Put([t \in kept |-> @[t]], obj_type(obj_def), obj_def),
            !.ext_types = Put(@, code, obj_def)]

RegisterHandler(reg, obj_def) ==
    [reg EXCEPT
        !.obj_types = Put(@, obj_type(obj_def), obj_def),
        !.ext_types = Put(@, ext_type(obj_def), obj_def)]

HasHandlerAttributes(obj_def) == obj_def \in BuiltinHandlers \cup CustomHandlers

\* TRUE when register(obj_def) raises (the assert of the last branch).
register_raises(obj_def) ==
    /\ obj_def \notin PydanticModels
    /\ obj_def \notin Dataclasses
    /\ ~HasHandlerAttributes(obj_def)

register(reg, obj_def) ==
    IF obj_def \in PydanticModels THEN RegisterPydantic(reg, obj_def)
    ELSE IF obj_def \in Dataclasses THEN RegisterDataclass(reg, obj_def)
    ELSE IF HasHandlerAttributes(obj_def) THEN RegisterHandler(reg, obj_def)
    ELSE reg

EmptyRegistry ==
    [obj_types |-> EmptyMap, ext_types |-> EmptyMap,
     serializables |-> EmptyMap, pydantic_serializables |-> EmptyMap]

\* The registry once the module is imported.
ModuleRegistry ==
    register(register(register(register(EmptyRegistry,
        "NumpyArrayHandler"), "NumpyStructuredArrayHandler"), "DatetimeHandler"), "SliceHandler")

(***************************************************************************)
(* Failures.  The names are those of the specification's taxonomy; the     *)
(* bodies name the exception the code raises.                              *)
(***************************************************************************)

\* default(): raise TypeError("Unknown type: %r")
UnsupportedType == Error("TypeError: Unknown type")

\* ext_hook(): raise TypeError("Unknown ext_type: %r")
UnknownExtensionCode == Error("TypeError: Unknown ext_type")

\* unpackb(): assert classname in REGISTRY[...], 'class ... not yet registered'
UnregisteredType == Error("AssertionError: class not yet registered")

\* NumpyArrayHandler: raise DtypeNotSupported
UnsupportedElementType == Error("DtypeNotSupported")

\* DatetimeHandler.unpackb: float(data) fails
MalformedTimestamp == Error("ValueError: could not convert to float")

\* a handler is handed a payload that has not the shape it unpacks
MalformedPayload == Error("malformed payload")

\* msgpack.unpackb on bytes that are not one msgpack object
ExtraData == Error("msgpack: ExtraData")

\* lz4.frame.decompress / the custom decompressor on bytes it did not produce
DecompressError == Error("RuntimeError: not a compressed frame")

\* register(): assert hasattr(obj_def, 'obj_type') and hasattr(obj_def, 'ext_type')
NotAHandlerError == Error("AssertionError: obj_type and ext_type")

(***************************************************************************)
(* Compression functions, by name.  "lz4" is the default pair              *)
(* lz4_compress / lz4_decompress, "cz" an application-supplied true        *)
(* inverse pair, "do_nothing" the identity.                                *)
(***************************************************************************)

CompressFuncs == {"lz4", "cz", "do_nothing"}

do_nothing(x) == x

compress(func, buf) ==
    IF func = "do_nothing" THEN do_nothing(buf) ELSE Node(func, 0, "", <<buf>>)

decompress(func, buf) ==
    IF func = "do_nothing" THEN do_nothing(buf)
    ELSE IF buf.k = func THEN buf.c[1]
    ELSE DecompressError

(***************************************************************************)
(* Sequences of results: the first exception aborts the whole call.        *)
(***************************************************************************)

FirstError(xs) ==
    LET errs == {i \in 1..Len(xs) : IsError(xs[i])}
    IN  xs[CHOOSE i \in errs : \A j \in errs : i <= j]

AnyError(xs) == \E i \in 1..Len(xs) : IsError(xs[i])

\* The value stored under key in the alternating key/value children of a dict.
HasKey(d, key) == \E i \in 1..Len(d.c) : i % 2 = 1 /\ d.c[i] = PyStr(key)

Get(d, key) == d.c[(CHOOSE i \in 1..Len(d.c) : i % 2 = 1 /\ d.c[i] = PyStr(key)) + 1]

PyTuple(c) == Node("tuple", 0, "", c)

PyList(c) == Node("list", 0, "", c)

PyDict(c) == Node("dict", 0, "", c)

(***************************************************************************)
(* Encoding: dumpb, msgpack.packb, default and the handlers' packb.        *)
(***************************************************************************)

RECURSIVE msgpack_packb(_, _)

dumpb(instance, do_compress, compress_func, reg) ==
    LET func == IF ~do_compress THEN "do_nothing" ELSE compress_func
        packed == msgpack_packb(instance, reg)
    IN  IF IsError(packed) THEN packed ELSE compress(func, packed)

NumpyArrayHandler_packb(array, reg) ==
    IF array.s = "object" THEN UnsupportedElementType
    ELSE dumpb(PyDict(<<PyStr("shape"), array.c[1],
                        PyStr("dtype"), PyStr(array.s),
                        PyStr("fortran_order"), array.c[2],
                        PyStr("data"), Node("bytes", array.n, "", <<>>)>>),
               FALSE, "lz4", reg)

\* b'%f' % dt.timestamp(): seconds, a point, six digits of the fraction.
DatetimeHandler_packb(dt) ==
    Node("ascii", 0, "", <<PyInt(dt.n \div 1000000), PyInt(dt.n % 1000000)>>)

DataclassHandler_packb(obj, reg) ==
    dumpb(PyTuple(<<PyStr(ClassName(obj.k)), PyDict(obj.c)>>), FALSE, "lz4", reg)

\* obj.dict(): the fields, with every model found in a field or in a
\* container of a field exported as its own dict.
RECURSIVE pydantic_dict(_)
pydantic_dict(obj) ==
    IF obj.k \in PydanticModels \cup {"list", "tuple", "dict"}
    THEN Node(IF obj.k \in PydanticModels THEN "dict" ELSE obj.k, 0, "",
              [i \in 1..Len(obj.c) |-> pydantic_dict(obj.c[i])])
    ELSE obj

PydanticHandler_packb(obj, reg) ==
    dumpb(PyTuple(<<PyStr(ClassName(obj.k)), pydantic_dict(obj)>>), FALSE, "lz4", reg)

\* dumpb((obj.start, obj.stop, obj.step)): do_compress and compress_func default.
SliceHandler_packb(obj, reg) ==
    dumpb(PyTuple(obj.c), TRUE, "lz4", reg)

\* The payload an application handler writes for its own objects.
CustomHandler_packb(h, obj) == Node("kraw", obj.n, h, <<>>)

packb(handler, obj, reg) ==
    CASE handler \in {"NumpyArrayHandler", "NumpyStructuredArrayHandler"} ->
            NumpyArrayHandler_packb(obj, reg)
      [] handler = "DatetimeHandler" -> DatetimeHandler_packb(obj)
      [] handler = "DataclassHandler" -> DataclassHandler_packb(obj, reg)
      [] handler = "PydanticHandler" -> PydanticHandler_packb(obj, reg)
      [] handler = "SliceHandler" -> SliceHandler_packb(obj, reg)
      [] handler \in CustomHandlers -> CustomHandler_packb(handler, obj)

\* A hook that encodes a value of unknown type as nil.
defaultCoercing(obj, reg) ==
    IF obj.k \in DOMAIN reg.obj_types
    THEN LET handler == reg.obj_types[obj.k]
             payload == packb(handler, obj, reg)
         IN  IF IsError(payload) THEN payload
             ELSE Node("ExtType", ext_type(handler), "", <<payload>>)
    ELSE PyNone

default(obj, reg) ==
    IF obj.k \in DOMAIN reg.obj_types
    THEN LET handler == reg.obj_types[obj.k]
             payload == packb(handler, obj, reg)
         IN  IF IsError(payload) THEN payload
             ELSE Node("ExtType", ext_type(handler), "", <<payload>>)
    ELSE UnsupportedType

\* The types msgpack packs without calling the default hook.
CoreScalars == {"None", "bool", "int", "str", "bytes"}

msgpack_packb(o, reg) ==
    CASE o.k = "None" -> Node("nil", 0, "", <<>>)
      [] o.k = "bool" -> Node("bool", o.n, "", <<>>)
      [] o.k = "int" -> Node("int", o.n, "", <<>>)
      [] o.k = "str" -> Node("str", 0, o.s, <<>>)
      [] o.k = "bytes" -> Node("bin", o.n, "", <<>>)
      [] o.k \in {"list", "tuple", "dict"} ->
            LET ps == [i \in 1..Len(o.c) |-> msgpack_packb(o.c[i], reg)]
            IN  IF AnyError(ps) THEN FirstError(ps)
                ELSE Node(IF o.k = "dict" THEN "map" ELSE "arr", 0, "", ps)
      [] o.k = "ExtType" -> Node("ext", o.n, "", o.c)
      [] OTHER ->
            LET r == default(o, reg)
            IN  IF IsError(r) THEN r ELSE msgpack_packb(r, reg)

(***************************************************************************)
(* Decoding: loadb, msgpack.unpackb, ext_hook and the handlers' unpackb.   *)
(***************************************************************************)

RECURSIVE msgpack_unpackb(_, _)

loadb(packed, do_decompress, decompress_func, reg) ==
    IF packed = PyNone THEN PyNone
    ELSE LET func == IF ~do_decompress THEN "do_nothing" ELSE decompress_func
             buf == decompress(func, packed)
         IN  IF IsError(buf) THEN buf ELSE msgpack_unpackb(buf, reg)

IsSequence(x) == x.k \in {"list", "tuple"}

NumpyArrayHandler_unpackb(data, reg) ==
    LET d == loadb(data, FALSE, "lz4", reg)
    IN  IF IsError(d) THEN d
        ELSE IF d.k # "dict" \/ \E key \in {"shape", "dtype", "fortran_order", "data"} : ~HasKey(d, key)
        THEN MalformedPayload
        ELSE IF Get(d, "dtype") = PyStr("object") THEN UnsupportedElementType
        ELSE IF Get(d, "data").k # "bytes" \/ ~IsSequence(Get(d, "shape")) THEN MalformedPayload
        ELSE Node("ndarray", Get(d, "data").n, Get(d, "dtype").s,
                  <<PyTuple(Get(d, "shape").c), Get(d, "fortran_order")>>)

\* datetime.fromtimestamp(float(data))
DatetimeHandler_unpackb(data) ==
    IF data.k # "ascii" THEN MalformedTimestamp
    ELSE Node("datetime", data.c[1].n * 1000000 + data.c[2].n, "", <<>>)

\* A lookup that falls back on a generic record class for an unknown name.
RecordFromTableOrDefault(table, r) ==
    IF ~IsSequence(r) \/ Len(r.c) # 2 THEN MalformedPayload
    ELSE IF r.c[2].k # "dict" THEN MalformedPayload
    ELSE IF r.c[1].k # "str" \/ r.c[1].s \notin DOMAIN table
         THEN Node("Serializable", 0, "", r.c[2].c)
    ELSE Node(table[r.c[1].s], 0, "", r.c[2].c)

\* klass(**data) after the lookup of classname in the table of the category.
RecordFromTable(table, r) ==
    IF ~IsSequence(r) \/ Len(r.c) # 2 THEN MalformedPayload
    ELSE IF r.c[1].k # "str" \/ r.c[1].s \notin DOMAIN table THEN UnregisteredType
    ELSE IF r.c[2].k # "dict" THEN MalformedPayload
    ELSE Node(table[r.c[1].s], 0, "", r.c[2].c)

DataclassHandler_unpackb(data, reg) ==
    LET r == loadb(data, FALSE, "lz4", reg)
    IN  IF IsError(r) THEN r ELSE RecordFromTable(reg.serializables, r)

PydanticHandler_unpackb(data, reg) ==
    LET r == loadb(data, FALSE, "lz4", reg)
    IN  IF IsError(r) THEN r ELSE RecordFromTable(reg.pydantic_serializables, r)

\* slice(*loadb(data)): do_decompress and decompress_func default.
SliceHandler_unpackb(data, reg) ==
    LET r == loadb(data, TRUE, "lz4", reg)
    IN  IF IsError(r) THEN r
        ELSE IF ~IsSequence(r) \/ Len(r.c) \notin 1..3 THEN MalformedPayload
        ELSE Node("slice", 0, "", r.c)

\* An application handler unpacks the payloads it wrote itself.
CustomHandler_unpackb(h, data) ==
    IF data.k = "kraw" /\ data.s = h THEN Node(obj_type(h), data.n, "", <<>>)
    ELSE MalformedPayload

unpackb(handler, data, reg) ==
    CASE handler \in {"NumpyArrayHandler", "NumpyStructuredArrayHandler"} ->
            NumpyArrayHandler_unpackb(data, reg)
      [] handler = "DatetimeHandler" -> DatetimeHandler_unpackb(data)
      [] handler = "DataclassHandler" -> DataclassHandler_unpackb(data, reg)
      [] handler = "PydanticHandler" -> PydanticHandler_unpackb(data, reg)
      [] handler = "SliceHandler" -> SliceHandler_unpackb(data, reg)
      [] handler \in CustomHandlers -> CustomHandler_unpackb(handler, data)

ext_hook(code, bytes_data, reg) ==
    IF code \in DOMAIN reg.ext_types
    THEN unpackb(reg.ext_types[code], bytes_data, reg)
    ELSE UnknownExtensionCode

msgpack_unpackb(b, reg) ==
    CASE b.k = "nil" -> PyNone
      [] b.k = "bool" -> Node("bool", b.n, "", <<>>)
      [] b.k = "int" -> PyInt(b.n)
      [] b.k = "str" -> PyStr(b.s)
      [] b.k = "bin" -> Node("bytes", b.n, "", <<>>)
      [] b.k \in {"arr", "map"} ->
            LET us == [i \in 1..Len(b.c) |-> msgpack_unpackb(b.c[i], reg)]
            IN  IF AnyError(us) THEN FirstError(us)
                ELSE Node(IF b.k = "map" THEN "dict" ELSE "list", 0, "", us)
      [] b.k = "ext" -> ext_hook(b.n, b.c[1], reg)
      [] OTHER -> ExtraData

(***************************************************************************)
(* The values handed to dumpb and the buffers handed to loadb.             *)
(***************************************************************************)

NdArray(data, dtype, shape, fortran) ==
    Node("ndarray", data, dtype, <<PyTuple(shape), PyBool(fortran)>>)

\* A plain typed array, two by two, in column-major layout.
FortranArray == NdArray(8, "float64", <<PyInt(2), PyInt(2)>>, TRUE)

\* An array of a compound (record) dtype: type(array) is numpy.ndarray.
StructArray == NdArray(9, "struct", <<PyInt(2)>>, FALSE)

ObjectArray == NdArray(6, "object", <<PyInt(1)>>, FALSE)

\* One element of a structured array: type(element) is numpy.void.
VoidScalar == Node("void", 9, "struct", <<PyTuple(<<>>), PyBool(FALSE)>>)

\* A datetime, as microseconds since the epoch.
SomeDatetime == Node("datetime", 5250000, "", <<>>)

\* An instance of a subclass of datetime: type(obj) is not datetime.
SubDatetime == Node("DatetimeSub", 5250000, "", <<>>)

\* An instance of a class nothing was registered for.
UnknownObject == Node("Unknown", 3, "", <<>>)

Record(cls, x) == Node(cls, 0, "", <<PyStr("x"), x>>)

Slice(start, stop, step) == Node("slice", 0, "", <<start, stop, step>>)

Atoms ==
    {PyInt(1), FortranArray, StructArray, ObjectArray, VoidScalar,
     SomeDatetime, SubDatetime, UnknownObject,
     Node("KType1", 4, "", <<>>), Record("A2", PyInt(1))}

PairAtoms == {PyInt(1), ObjectArray, UnknownObject}

Pairs == {PyList(<<x, y>>) : x \in PairAtoms, y \in PairAtoms}

RECURSIVE ValuesUpTo(_)
ValuesUpTo(d) ==
    IF d = 0 THEN Atoms
    ELSE LET prev == ValuesUpTo(d - 1)
         IN  Atoms \cup Pairs
                   \cup {PyList(<<x>>) : x \in prev}
                   \cup {Slice(PyInt(0), x, PyNone) : x \in prev}
                   \cup {Record("A1", x) : x \in prev}
                   \cup {Record("P1", x) : x \in prev}

Values == ValuesUpTo(MaxDepth)

RECURSIVE Contains(_, _)
\* TRUE when kind is the type of v or of a value nested in v.
Contains(v, kinds) ==
    v.k \in kinds \/ \E i \in 1..Len(v.c) : Contains(v.c[i], kinds)

RECURSIVE HasDtype(_, _)
HasDtype(v, dtype) ==
    (v.k \in {"ndarray", "void"} /\ v.s = dtype) \/ \E i \in 1..Len(v.c) : HasDtype(v.c[i], dtype)

RECURSIVE NestsModels(_)
\* TRUE when a pydantic model in v has a field that holds a pydantic model.
NestsModels(v) ==
    \/ v.k \in PydanticModels /\ \E i \in 1..Len(v.c) : Contains(v.c[i], PydanticModels)
    \/ \E i \in 1..Len(v.c) : NestsModels(v.c[i])

\* The values whose decoding this module decides: how numpy parses the text
\* of a compound dtype and how a model validates the dict of a nested model
\* is decided by those libraries.
RoundTripValues == {v \in Values : ~HasDtype(v, "struct") /\ ~NestsModels(v)}

\* A well-formed record frame: ext code, then (type_name, field map).
RecordFrame(code, name) ==
    Node("ext", code, "",
         <<Node("arr", 0, "", <<Node("str", 0, name, <<>>),
                               Node("map", 0, "", <<Node("str", 0, "x", <<>>), Node("int", 1, "", <<>>)>>)>>)>>)

Frames ==
    {RecordFrame(code, name) : code \in {4, 6}, name \in {"A", "Z"}}
        \cup {Node("ext", 9, "", <<Node("nil", 0, "", <<>>)>>),
              Node("ext", 3, "", <<Node("nil", 0, "", <<>>)>>),
              Node("arr", 0, "", <<Node("int", 1, "", <<>>), RecordFrame(4, "Z")>>)}

\* (packed, do_decompress, decompress_func)
LoadInputs ==
    {<<f, FALSE, "lz4">> : f \in Frames}
        \cup {<<compress(func, f), TRUE, func>> : f \in Frames, func \in {"lz4", "cz"}}
        \cup {<<PyNone, TRUE, "lz4">>, <<Node("nil", 0, "", <<>>), TRUE, "lz4">>}

\* (do_compress, compress_func)
DumpOptions == {<<TRUE, "lz4">>, <<TRUE, "cz">>, <<FALSE, "lz4">>}

(***************************************************************************)
(* The state machine: the module is imported, then register, dumpb and     *)
(* loadb are called in any order.  last records the latest call.           *)
(***************************************************************************)

\* TRUE when the tables hold every binding register(obj_def) writes.
Registered(reg, obj_def) ==
    CASE obj_def \in Dataclasses ->
            /\ ClassName(obj_def) \in DOMAIN reg.serializables
            /\ reg.serializables[ClassName(obj_def)] = obj_def
            /\ obj_def \in DOMAIN reg.obj_types
            /\ reg.obj_types[obj_def] = "DataclassHandler"
            /\ ext_type("DataclassHandler") \in DOMAIN reg.ext_types
      [] obj_def \in PydanticModels ->
            /\ ClassName(obj_def) \in DOMAIN reg.pydantic_serializables
            /\ reg.pydantic_serializables[ClassName(obj_def)] = obj_def
            /\ obj_def \in DOMAIN reg.obj_types
            /\ reg.obj_types[obj_def] = "PydanticHandler"
            /\ ext_type("PydanticHandler") \in DOMAIN reg.ext_types
      [] HasHandlerAttributes(obj_def) ->
            /\ obj_type(obj_def) \in DOMAIN reg.obj_types
            /\ reg.obj_types[obj_type(obj_def)] = obj_def
            /\ ext_type(obj_def) \in DOMAIN reg.ext_types
            /\ reg.ext_types[ext_type(obj_def)] = obj_def
      [] OTHER -> FALSE

Call(op, d, was, arg, flag, func, out, ref) ==
    [op |-> op, d |-> d, was |-> was, arg |-> arg, flag |-> flag, func |-> func,
     out |-> out, ref |-> ref]

\* The caller is between two calls.
Idle == Call("idle", "", FALSE, PyNone, FALSE, "", PyNone, PyNone)

Init ==
    /\ REGISTRY = ModuleRegistry
    /\ last = Idle

Register(obj_def) ==
    /\ last = Idle
    /\ REGISTRY' = register(REGISTRY, obj_def)
    /\ last' = Call("register", obj_def, Registered(REGISTRY, obj_def), PyNone, FALSE, "",
                    IF register_raises(obj_def) THEN NotAHandlerError ELSE PyNone, PyNone)

Dump(instance, do_compress, compress_func) ==
    /\ last = Idle
    /\ last' = Call("dumpb", "", FALSE, instance, do_compress, compress_func,
                    dumpb(instance, do_compress, compress_func, REGISTRY), PyNone)
    /\ UNCHANGED REGISTRY

Load(packed, do_decompress, decompress_func) ==
    /\ last = Idle
    /\ last' = Call("loadb", "", FALSE, packed, do_decompress, decompress_func,
                    loadb(packed, do_decompress, decompress_func, REGISTRY), PyNone)
    /\ UNCHANGED REGISTRY

\* loadb(dumpb(v)), both with the same switch and the same pair of functions.
Through(v, do_compress, func, reg) ==
    LET packed == dumpb(v, do_compress, func, reg)
    IN  IF IsError(packed) THEN packed ELSE loadb(packed, do_compress, func, reg)

\* out: the round trip with compression by func; ref: the one without.
RoundTrip(v, func) ==
    /\ last = Idle
    /\ last' = Call("roundtrip", "", FALSE, v, TRUE, func,
                    Through(v, TRUE, func, REGISTRY), Through(v, FALSE, func, REGISTRY))
    /\ UNCHANGED REGISTRY

\* The call has returned (or raised) and the caller goes on.
Return ==
    /\ last # Idle
    /\ last' = Idle
    /\ UNCHANGED REGISTRY

Next ==
    \/ \E obj_def \in Descriptors : Register(obj_def)
    \/ \E v \in Values, o \in DumpOptions : Dump(v, o[1], o[2])
    \/ \E i \in LoadInputs : Load(i[1], i[2], i[3])
    \/ \E v \in RoundTripValues, func \in CompressFuncs : RoundTrip(v, func)
    \/ Return

Spec == Init /\ [][Next]_vars

(***************************************************************************)
(* Properties.                                                             *)
(***************************************************************************)

Compressors == {"lz4", "cz"}

RECURSIVE CompressCount(_)
\* How many times a compressor was applied to produce the buffer b.
CompressCount(b) ==
    LET inner == [i \in 1..Len(b.c) |-> CompressCount(b.c[i])]
        Sum[i \in 0..Len(b.c)] == IF i = 0 THEN 0 ELSE Sum[i - 1] + inner[i]
    IN  (IF b.k \in Compressors THEN 1 ELSE 0) + Sum[Len(b.c)]

RECURSIVE CompressedPayload(_)
\* TRUE when an extension payload in b is, or holds, a compressor's output.
CompressedPayload(b) ==
    \/ b.k = "ext" /\ CompressCount(b.c[1]) > 0
    \/ \E i \in 1..Len(b.c) : CompressedPayload(b.c[i])

\* The buffer the core decoder of the latest loadb (or the core encoder of
\* the latest dumpb) saw: the argument or result without the outer wrap.
Unwrapped(b) == IF b.k \in Compressors THEN b.c[1] ELSE b

RecordClasses == Dataclasses \cup PydanticModels

RecordHandlerOf(code) == IF code = 4 THEN "DataclassHandler" ELSE "PydanticHandler"

NameTable(reg, code) == IF code = 4 THEN reg.serializables ELSE reg.pydantic_serializables

\* b is a well-formed record frame whose type_name the table of its category lacks.
UnknownRecordFrame(b, reg) ==
    /\ b.k = "ext"
    /\ b.n \in {4, 6}
    /\ b.c[1].k = "arr"
    /\ Len(b.c[1].c) = 2
    /\ b.c[1].c[1].k = "str"
    /\ b.c[1].c[2].k = "map"
    /\ b.c[1].c[1].s \notin DOMAIN NameTable(reg, b.n)

\* The types msgpack packs itself, and the ExtType the hook returns.
CoreTypes == CoreScalars \cup {"list", "tuple", "dict"}

RECURSIVE HasUnregisteredType(_, _)
\* TRUE when v, or a value nested in v, is of a type that neither msgpack
\* packs nor obj_types has an entry for.
HasUnregisteredType(v, reg) ==
    \/ v.k \notin CoreTypes /\ v.k \notin DOMAIN reg.obj_types
    \/ \E i \in 1..Len(v.c) : HasUnregisteredType(v.c[i], reg)

Encodable(v, reg) == ~IsError(dumpb(v, FALSE, "lz4", reg))

Tables == {"obj_types", "ext_types", "serializables", "pydantic_serializables"}

KeysOf(reg, t) ==
    CASE t = "obj_types" -> DOMAIN reg.obj_types
      [] t = "ext_types" -> DOMAIN reg.ext_types
      [] t = "serializables" -> DOMAIN reg.serializables
      [] t = "pydantic_serializables" -> DOMAIN reg.pydantic_serializables

\* register(obj_def) claims an ext code that ext_types binds to another handler.
Collides(reg, obj_def) ==
    /\ HasHandlerAttributes(obj_def)
    /\ ext_type(obj_def) \in DOMAIN reg.ext_types
    /\ reg.ext_types[ext_type(obj_def)] # obj_def

\* C1: nested encodes never re-apply compression: in the result of any
\* top-level dumpb the compressor was applied at most once, to the outermost
\* buffer, and no extension payload is compressed.
C1_NoNestedCompression ==
    (last.op = "dumpb" /\ ~IsError(last.out)) =>
        /\ CompressCount(last.out) <= 1
        /\ ~CompressedPayload(last.out)

\* C2: register fails when the descriptor's ext code is bound to a different
\* handler, and a binding of ext_types is never replaced by another handler.
C2_ExtCodeCollisionRejected ==
    [][/\ (last'.op = "register" /\ Collides(REGISTRY, last'.d)) => IsError(last'.out)
       /\ \A code \in DOMAIN REGISTRY.ext_types :
             /\ code \in DOMAIN REGISTRY'.ext_types
             /\ REGISTRY'.ext_types[code] = REGISTRY.ext_types[code]]_vars

C5_CompressionTransparency ==
    (last.op = "roundtrip" /\ Encodable(last.arg, REGISTRY)) =>
        /\ last.out = last.ref
        /\ last.ref = last.arg

C7_StructuredArrayCode ==
    (last.op = "dumpb" /\ last.arg.k = "ndarray" /\ ~IsError(last.out)) =>
        /\ Unwrapped(last.out).k = "ext"
        /\ Unwrapped(last.out).n = IF last.arg.s = "struct" THEN 2 ELSE 1

\* C8: only register changes the tables: every dumpb and loadb, failing or
\* not, leaves them as they were, and no step removes a key from a table.
C8_OnlyRegisterMutates ==
    [][/\ last'.op \in {"dumpb", "loadb", "roundtrip"} => REGISTRY' = REGISTRY
       /\ \A t \in Tables : KeysOf(REGISTRY, t) \subseteq KeysOf(REGISTRY', t)]_vars

C8_Witness ==
    /\ last.op = "loadb"
    /\ last.arg = Node("arr", 0, "", <<Node("int", 1, "", <<>>), RecordFrame(4, "Z")>>)
    /\ last.out = UnregisteredType
    /\ "KType1" \in DOMAIN REGISTRY.obj_types
    /\ REGISTRY.ext_types[1] = "NumpyArrayHandler"

\* C9: for every native type bound in obj_types to a handler H, ext_types
\* binds H's ext code to H.
C9_HandlerAgreement ==
    \A t \in DOMAIN REGISTRY.obj_types :
        LET h == REGISTRY.obj_types[t]
        IN  /\ ext_type(h) \in DOMAIN REGISTRY.ext_types
            /\ REGISTRY.ext_types[ext_type(h)] = h

\* C10: every record class bound in obj_types is the class its name is bound
\* to in the table of its category, and the round trip of an instance of a
\* registered record class yields an instance of that class.
C10_RecordClassIdentity ==
    /\ \A cls \in RecordClasses \cap DOMAIN REGISTRY.obj_types :
          LET table == NameTable(REGISTRY, ext_type(REGISTRY.obj_types[cls]))
          IN  /\ ClassName(cls) \in DOMAIN table
              /\ table[ClassName(cls)] = cls
    /\ (last.op = "roundtrip" /\ last.arg.k \in RecordClasses
            /\ Encodable(last.arg, REGISTRY)) => last.ref.k = last.arg.k

====
